---------------------------- MODULE Spec2Model ----------------------------
(***************************************************************************)
(* WakaWeather confidence engine: the four provider normalizers, the       *)
(* concurrent fetch orchestrator (fetch_all), the confidence / severity /  *)
(* summary functions and the two callers (the /confidence endpoint and     *)
(* main) of "AI_Forcasting (python backend)".                              *)
(*                                                                         *)
(* A temperature and a rainfall are JSON numbers counted in units of      *)
(* 1/Scale (tenths); the confidence score is computed from them in binary  *)
(* floats, rounding included.  A wind reading of a provider is a whole     *)
(* number of the provider's unit and a forecast's wind is held in units of *)
(* 1/WindScale m/s, so that the conversion factors 0.44704 and 0.277778    *)
(* are exact.  Text is a sequence of one-character strings.                *)
(***************************************************************************)
EXTENDS Integers, Sequences, FiniteSets, TLC

(***************************************************************************)
(* Fixed-point units and bounds of the input domains.                      *)
(***************************************************************************)
Scale == 10
WindScale == 1000000

MaxTempSteps == 6
MaxRainSteps == 6
MaxBatch == 3

(***************************************************************************)
(* JSON / Python values.  Every value has the same three fields: t is the  *)
(* Python type, n the number (when t = "num"), s the text (when t="str").  *)
(* "missing" is a key or index that is not there (KeyError / IndexError).  *)
(***************************************************************************)
Num(n) == [t |-> "num", n |-> n, s |-> <<>>]
Str(s) == [t |-> "str", n |-> 0, s |-> s]
Null == [t |-> "null", n |-> 0, s |-> <<>>]
Missing == [t |-> "missing", n |-> 0, s |-> <<>>]
\* A JSON object (a Python dict) met where a scalar is read.
Obj == [t |-> "obj", n |-> 0, s |-> <<>>]

IsNum(v) == v.t = "num"
IsStr(v) == v.t = "str"

\* Python truthiness of a value: None, 0 and "" are falsy.
Truthy(v) ==
    CASE v.t = "num" -> v.n # 0
      [] v.t = "str" -> v.s # <<>>
      [] OTHER -> FALSE

(***************************************************************************)
(* Text: str.lower(), the substring test `x in y` and the code point order *)
(* that sorted() uses.                                                     *)
(***************************************************************************)
UpperCase == <<"A","B","C","D","E","F","G","H","I","J","K","L","M",
               "N","O","P","Q","R","S","T","U","V","W","X","Y","Z">>
LowerCase == <<"a","b","c","d","e","f","g","h","i","j","k","l","m",
               "n","o","p","q","r","s","t","u","v","w","x","y","z">>

IndexIn(seq, c) == CHOOSE i \in 1..Len(seq) : seq[i] = c
IsUpper(c) == \E i \in 1..Len(UpperCase) : UpperCase[i] = c
IsLower(c) == \E i \in 1..Len(LowerCase) : LowerCase[i] = c

LowerChar(c) == IF IsUpper(c) THEN LowerCase[IndexIn(UpperCase, c)] ELSE c
lower(s) == [i \in 1..Len(s) |-> LowerChar(s[i])]

Digits == <<"0","1","2","3","4","5","6","7","8","9">>
IsDigit(c) == \E i \in 1..Len(Digits) : Digits[i] = c
DigitVal(c) == IndexIn(Digits, c) - 1

\* Code point of a character of the alphabet in use (space, + - . _,
\* 0-9, A-Z, a-z).
Ord(c) ==
    IF IsUpper(c) THEN 64 + IndexIn(UpperCase, c)
    ELSE IF IsLower(c) THEN 96 + IndexIn(LowerCase, c)
    ELSE IF IsDigit(c) THEN 48 + DigitVal(c)
    ELSE CASE c = "+" -> 43
           [] c = "-" -> 45
           [] c = "." -> 46
           [] c = "_" -> 95
           [] OTHER -> 32

\* Python `sub in s`.
Contains(s, sub) ==
    \E i \in 0..(Len(s) - Len(sub)) :
        \A j \in 1..Len(sub) : s[i + j] = sub[j]

RECURSIVE StrLess(_, _)
\* Python `a < b` on two str.
StrLess(a, b) ==
    IF b = <<>> THEN FALSE
    ELSE IF a = <<>> THEN TRUE
    ELSE IF Ord(Head(a)) # Ord(Head(b)) THEN Ord(Head(a)) < Ord(Head(b))
    ELSE StrLess(Tail(a), Tail(b))

sStorm == <<"s","t","o","r","m">>
sCyclone == <<"c","y","c","l","o","n","e">>
sRain == <<"r","a","i","n">>

cStorm == <<"S","t","o","r","m">>
cClearOrCloudy == <<"C","l","e","a","r"," ","o","r"," ","C","l","o","u","d","y">>
cClear == <<"C","l","e","a","r">>
cLightRain == <<"l","i","g","h","t"," ","r","a","i","n">>
cThunder == <<"T","h","u","n","d","e","r","s","t","o","r","m">>
cCycloneUp == <<"C","Y","C","L","O","N","E">>
cStork == <<"s","t","o","r","k">>

(***************************************************************************)
(* A provider's HTTP response, as far as the normalizers read it.          *)
(*   status    "neterr" / "timeout": requests.get raises;                  *)
(*             "http_error": a non-2xx response (a falsy Response);        *)
(*             "badjson": r.json() raises; "ok": a JSON document.          *)
(*   hasTarget the document holds the entry for tomorrow 12:00 (the        *)
(*             dt_txt match, forecastday[1], the hourly time index).       *)
(*   temp, rain, wind, cond, code: the entry's fields as JSON values.      *)
(*             rain is the member the provider names ("rain",              *)
(*             "totalprecip_mm", "precip", precipitation[i]); Missing is   *)
(*             an absent member, Obj a JSON object.                        *)
(*   rain3h    the "3h" member of rain when rain is an object (Missing:    *)
(*             the object has no "3h"); Missing otherwise.                 *)
(***************************************************************************)
Providers == <<"OpenWeatherMap", "WeatherAPI", "Open-Meteo", "Weatherstack">>
ProviderSet == {Providers[i] : i \in 1..Len(Providers)}

\* A Python result of a normalizer: None, or the forecast dict.
None ==
    [kind |-> "None", source |-> "", temp |-> Missing, rain |-> Missing,
     condition |-> Missing, wind |-> Missing]
Forecast(src, temp, rain, cond, wind) ==
    [kind |-> "dict", source |-> src, temp |-> temp, rain |-> rain,
     condition |-> cond, wind |-> wind]

\* retry_get: the Response, or None when requests.get raises.
retry_get(resp) ==
    IF resp.status \in {"neterr", "timeout"} THEN "None" ELSE "Response"

\* `if not r: return None`, then r.json(): TRUE when a document was parsed.
HasDocument(resp) ==
    /\ retry_get(resp) # "None"
    /\ resp.status # "http_error"
    /\ resp.status # "badjson"

\* Wind factors, in units of 1/WindScale m/s per whole provider unit.
MphToMs == 447040
KmhToMs == 277778

\* A value copied into the forecast as it is (a number keeps its value).
PassWind(v) == IF IsNum(v) THEN Num(v.n * WindScale) ELSE v

\* e.get("rain", {}).get("3h", 0): an absent "rain" reads as {}, an object
\* gives its "3h" member or 0, and any other value has no .get
\* (AttributeError).
Rain3h(resp) ==
    IF resp.rain = Missing THEN [exc |-> "", v |-> Num(0)]
    ELSE IF resp.rain # Obj THEN [exc |-> "AttributeError", v |-> Missing]
    ELSE [exc |-> "", v |-> IF resp.rain3h = Missing THEN Num(0) ELSE resp.rain3h]

get_openweather(resp) ==
    IF ~HasDocument(resp) THEN None
    ELSE IF ~resp.hasTarget THEN None
    ELSE IF resp.temp = Missing \/ resp.cond = Missing \/ resp.wind = Missing
         THEN None
    ELSE IF Rain3h(resp).exc # "" THEN None
    ELSE Forecast("OpenWeatherMap", resp.temp, Rain3h(resp).v,
                  resp.cond, PassWind(resp.wind))

get_weatherapi(resp) ==
    IF ~HasDocument(resp) THEN None
    ELSE IF ~resp.hasTarget THEN None
    ELSE IF resp.temp = Missing \/ resp.rain = Missing \/ resp.cond = Missing
            \/ resp.wind = Missing
         THEN None
    ELSE IF ~IsNum(resp.wind) THEN None
    ELSE Forecast("WeatherAPI", resp.temp, resp.rain, resp.cond,
                  Num(resp.wind.n * MphToMs))

get_weatherstack(resp) ==
    IF ~HasDocument(resp) THEN None
    ELSE IF resp.temp = Missing \/ resp.rain = Missing \/ resp.cond = Missing
            \/ resp.wind = Missing
         THEN None
    ELSE IF ~IsNum(resp.wind) THEN None
    ELSE Forecast("Weatherstack", resp.temp, resp.rain, resp.cond,
                  Num(resp.wind.n * KmhToMs))

StormCodes == {95, 96, 99}

get_openmeteo(resp) ==
    IF ~HasDocument(resp) THEN None
    ELSE IF ~resp.hasTarget THEN None
    ELSE IF resp.code = Missing \/ resp.temp = Missing \/ resp.rain = Missing
            \/ resp.wind = Missing
         THEN None
    ELSE Forecast("Open-Meteo", resp.temp, resp.rain,
                  IF IsNum(resp.code) /\ resp.code.n \in StormCodes
                  THEN Str(cStorm) ELSE Str(cClearOrCloudy),
                  PassWind(resp.wind))

\* funcs: the adapter registered under each provider name.
Normalize(p, resp) ==
    CASE p = "OpenWeatherMap" -> get_openweather(resp)
      [] p = "WeatherAPI" -> get_weatherapi(resp)
      [] p = "Open-Meteo" -> get_openmeteo(resp)
      [] p = "Weatherstack" -> get_weatherstack(resp)

\* The unit each provider reports wind in for the request the code sends:
\* OpenWeatherMap with units=metric m/s, WeatherAPI's maxwind_mph mph,
\* Weatherstack and Open-Meteo (no unit parameter in the URL) km/h.
NativeWindUnit(p) ==
    CASE p = "OpenWeatherMap" -> "ms"
      [] p = "WeatherAPI" -> "mph"
      [] p = "Open-Meteo" -> "kmh"
      [] p = "Weatherstack" -> "kmh"

(***************************************************************************)
(* Input domain of the normalizers.                                        *)
(***************************************************************************)
sNa == <<"n","a">>
TempBase == 200
TempStep == 5
MaxWindReading == 3
WindStep == 18

TempVals == {Missing, Null, Str(sNa), Num(TempBase), Num(TempBase + 11 * TempStep)}
Rain3hVals == {Missing, Null, Num(0), Num(125)}
RainVals == {Missing, Null, Str(sNa), Num(0), Num(125)}
WindVals == {Missing, Null, Str(sNa), Str(<<"n","a","n">>)} \cup {Num(k * WindStep) : k \in 0..MaxWindReading}
CondVals == {Missing, Null, Str(<<>>), Str(cClear), Str(cThunder)}
CodeVals == {Missing, Null, Num(0), Num(95)}

FailedResponses ==
    {[status |-> st, hasTarget |-> FALSE, temp |-> Missing, rain |-> Missing,
      rain3h |-> Missing, wind |-> Missing, cond |-> Missing, code |-> Missing] :
        st \in {"neterr", "timeout", "http_error", "badjson"}}

\* Documents whose rain member is absent or a scalar, and documents whose
\* rain member is an object.
OkResponses ==
    [status : {"ok"}, hasTarget : BOOLEAN, temp : TempVals, rain : RainVals,
     rain3h : {Missing}, wind : WindVals, cond : CondVals, code : CodeVals]
    \cup
    [status : {"ok"}, hasTarget : BOOLEAN, temp : TempVals, rain : {Obj},
     rain3h : Rain3hVals, wind : WindVals, cond : CondVals, code : CodeVals]

Responses == FailedResponses \cup OkResponses

(***************************************************************************)
(* Results of the Python functions: a value, or the exception raised.      *)
(***************************************************************************)
NoAlert == [kind |-> "None", shown |-> 0]
Alert(kind, shown) == [kind |-> kind, shown |-> shown]

Min2(a, b) == IF a <= b THEN a ELSE b

(***************************************************************************)
(* The floats of the score.  Python holds a temperature, a rainfall and    *)
(* the score as binary doubles and rounds every operation to the nearest   *)
(* double (ties to even).  A double near n tenths is held as [n, d]: the   *)
(* value n / 10 + d * u with u = 2^-56 / 10.  Every double from 0.1 up is  *)
(* a multiple of 2^-56 = 10 u, so d is an integer, and the doubles of the  *)
(* binade [2^b, 2^(b+1)) are the multiples of 10 * 2^(b+4) u.              *)
(***************************************************************************)
Dbl(n, d) == [n |-> n, d |-> d]

RECURSIVE Log2Up(_, _)
Log2Up(n, b) == IF n < 20 * 2^b THEN b ELSE Log2Up(n, b + 1)

RECURSIVE Log2Down(_, _)
Log2Down(n, b) == IF 10 <= n * 2^(-b) THEN b ELSE Log2Down(n, b - 1)

\* The b with 2^b <= n / 10 < 2^(b+1), n >= 1.
Log2Tenths(n) == IF n >= 10 THEN Log2Up(n, 0) ELSE Log2Down(n, -1)

\* b = Log2Tenths(n), lowered by one when n / 10 is the power of two 2^b
\* and e is below 0.
BinadeFrom(n, e, b) ==
    IF e < 0 /\ (IF b >= 0 THEN n = 10 * 2^b ELSE n * 2^(-b) = 10) THEN b - 1 ELSE b

\* The binade of n / 10 + e u, n >= 1.
Binade(n, e) == BinadeFrom(n, e, Log2Tenths(n))

\* 2^k modulo 20, k >= 2.
Pow2Mod20(k) == <<16, 12, 4, 8>>[(k % 4) + 1]

\* The deviation after rounding: the exact value is rem above a float, the
\* floats are g apart, and odd tells that the float below has an odd
\* significand.
RoundRem(e, g, rem, odd) ==
    IF 2 * rem > g \/ (2 * rem = g /\ odd) THEN e - rem + g ELSE e - rem

\* t is the significand quotient modulo 20: its last decimal digit gives
\* the remainder and its tens digit the parity of the float below.
RoundDigit(e, sh, t) == RoundRem(e, 10 * sh, sh * (t % 10) + (e % sh), t >= 10)

\* With sh = 2^(b+4) the value n / 10 + e u is, in units u,
\* sh * (n * 2^(52-b) + e \div sh) + e % sh, and the floats of binade b
\* are the multiples of 10 * sh.
RoundBinade(n, e, b) ==
    RoundDigit(e, 2^(b + 4), ((n % 20) * Pow2Mod20(52 - b) + (e \div 2^(b + 4))) % 20)

\* The deviation of the double nearest to the exact value n / 10 + e u > 0.
\* A value below 1/10 (n = 0) is a difference of near doubles and exact.
RoundPos(n, e) == IF n = 0 THEN e ELSE RoundBinade(n, e, Binade(n, e))

FloatSign(n, e) == IF n < 0 \/ (n = 0 /\ e < 0) THEN -1 ELSE 1

\* The double nearest to the exact value n / 10 + e u.
RoundF(n, e) ==
    Dbl(n, FloatSign(n, e) * RoundPos(FloatSign(n, e) * n, FloatSign(n, e) * e))

\* The float the JSON number n / 10 is parsed to.
FloatOfTenths(n) == RoundF(n, 0)

FloatSub(x, y) == RoundF(x.n - y.n, x.d - y.d)
FloatAdd(x, y) == RoundF(x.n + y.n, x.d + y.d)
FloatMul(x, k) == RoundF(k * x.n, k * x.d)
FloatLess(x, y) == x.n < y.n \/ (x.n = y.n /\ x.d < y.d)
FloatAbs(x) == IF FloatLess(x, Dbl(0, 0)) THEN Dbl(-x.n, -x.d) ELSE x
\* Python max(a, b) and min(a, b): the first argument unless the second
\* is greater (less).
FloatMax(a, b) == IF FloatLess(a, b) THEN b ELSE a
FloatMin(a, b) == IF FloatLess(b, a) THEN b ELSE a

\* 100 - (td * 4 + rd * 5) of weighted_confidence.
RawScore(f1, f2) ==
    LET td == FloatAbs(FloatSub(FloatOfTenths(f1.temp.n), FloatOfTenths(f2.temp.n)))
        rd == FloatAbs(FloatSub(FloatOfTenths(f1.rain.n), FloatOfTenths(f2.rain.n)))
    IN  FloatSub(Dbl(100 * Scale, 0), FloatAdd(FloatMul(td, 4), FloatMul(rd, 5)))

\* weighted_confidence: [exc, v]; v is the score, a float.
weighted_confidence(f1, f2) ==
    IF ~(IsNum(f1.temp) /\ IsNum(f2.temp)) THEN [exc |-> "TypeError", v |-> Dbl(0, 0)]
    ELSE IF ~(IsNum(f1.rain) /\ IsNum(f2.rain)) THEN [exc |-> "TypeError", v |-> Dbl(0, 0)]
    ELSE [exc |-> "",
          v |-> FloatMax(Dbl(0, 0), FloatMin(RawScore(f1, f2), Dbl(100 * Scale, 0)))]

\* confidence_label on a score.
confidence_label_strict(s) ==
    IF FloatLess(Dbl(85 * Scale, 0), s) THEN "High"
    ELSE IF FloatLess(Dbl(60 * Scale, 0), s) THEN "Moderate"
    ELSE "Low"
confidence_label(s) ==
    IF ~FloatLess(s, Dbl(85 * Scale, 0)) THEN "High"
    ELSE IF ~FloatLess(s, Dbl(60 * Scale, 0)) THEN "Moderate"
    ELSE "Low"

\* The binary exponent of k / 5: the b with 2^b <= k / 5 < 2^(b+1), k >= 1.
Log2Fifth(k) ==
    CHOOSE b \in (-3)..20 :
        IF b >= 0 THEN 5 * 2^b <= k /\ k < 10 * 2^b
        ELSE 5 <= k * 2^(-b) /\ k * 2^(-b) < 10

\* The float nearest to k / 20 (k odd, no multiple of 5) lies above k / 20:
\* k / 20 is k / 5 scaled by a power of two, and the 53-bit significand of
\* k / 5 is k * 2^s / 5 rounded, s = 52 - Log2Fifth(k); it is rounded up
\* when the remainder of k * 2^s by 5 is 3 or 4.
FloatAboveTie(k) ==
    LET s == 52 - Log2Fifth(k)
        pow == <<1, 2, 4, 3>>[(s % 4) + 1]
    IN  ((k % 5) * pow) % 5 >= 3

\* f"{wind:.1f}" of a wind >= 0: the wind rounded to one decimal, in tenths
\* of m/s.  w stands for the float nearest to w / WindScale; a value that
\* ends in 5 hundredths is rounded as that float is (to even when the float
\* is exact), not as the decimal.
FormatWind1Pos(w) ==
    LET unit == WindScale \div 10
        q == w \div unit
        r == w % unit
        k == 2 * q + 1
    IN  IF 2 * r > unit THEN q + 1
        ELSE IF 2 * r < unit THEN q
        ELSE IF k % 5 = 0 THEN (IF q % 2 = 1 THEN q + 1 ELSE q)
        ELSE IF FloatAboveTie(k) THEN q + 1
        ELSE q

\* f"{wind:.1f}": the sign is formatted apart from the magnitude.
FormatWind1(w) == IF w >= 0 THEN FormatWind1Pos(w) ELSE -FormatWind1Pos(-w)

\* detect_severe: [exc, severe, alert].
detect_severe_rain_first(cond, rain, wind) ==
    IF IsNum(rain) /\ rain.n > 10 * Scale
    THEN [exc |-> "", severe |-> TRUE, alert |-> Alert("rain", 0)]
    ELSE IF Truthy(cond) /\ IsStr(cond)
            /\ (Contains(lower(cond.s), sStorm) \/ Contains(lower(cond.s), sCyclone))
    THEN [exc |-> "", severe |-> TRUE, alert |-> Alert("storm", 0)]
    ELSE IF IsNum(wind) /\ wind.n > 10 * WindScale
    THEN [exc |-> "", severe |-> TRUE, alert |-> Alert("wind", FormatWind1(wind.n))]
    ELSE [exc |-> "", severe |-> FALSE, alert |-> NoAlert]
detect_severe(cond, rain, wind) ==
    IF Truthy(cond) /\ ~IsStr(cond)
    THEN [exc |-> "AttributeError", severe |-> FALSE, alert |-> NoAlert]
    ELSE IF Truthy(cond) /\ (Contains(lower(cond.s), sStorm) \/ Contains(lower(cond.s), sCyclone))
    THEN [exc |-> "", severe |-> TRUE, alert |-> Alert("storm", 0)]
    ELSE IF ~IsNum(rain)
    THEN [exc |-> "TypeError", severe |-> FALSE, alert |-> NoAlert]
    ELSE IF rain.n > 10 * Scale
    THEN [exc |-> "", severe |-> TRUE, alert |-> Alert("rain", 0)]
    ELSE IF ~IsNum(wind)
    THEN [exc |-> "TypeError", severe |-> FALSE, alert |-> NoAlert]
    ELSE IF wind.n > 10 * WindScale
    THEN [exc |-> "", severe |-> TRUE, alert |-> Alert("wind", FormatWind1(wind.n))]
    ELSE [exc |-> "", severe |-> FALSE, alert |-> NoAlert]

\* Python `a < b` on two values; "TypeError" when the types do not compare.
PyLess(a, b) ==
    IF IsNum(a) /\ IsNum(b) THEN (IF a.n < b.n THEN "yes" ELSE "no")
    ELSE IF IsStr(a) /\ IsStr(b) THEN (IF StrLess(a.s, b.s) THEN "yes" ELSE "no")
    ELSE "TypeError"

Comparable(vs) ==
    \/ Len(vs) <= 1
    \/ \A i \in 1..Len(vs) : IsNum(vs[i])
    \/ \A i \in 1..Len(vs) : IsStr(vs[i])

\* min(vs) / max(vs): [exc, v].
PyMin(vs) ==
    IF vs = <<>> THEN [exc |-> "ValueError", v |-> Null]
    ELSE IF ~Comparable(vs) THEN [exc |-> "TypeError", v |-> Null]
    ELSE [exc |-> "",
          v |-> vs[CHOOSE i \in 1..Len(vs) :
                     /\ \A j \in 1..Len(vs) : PyLess(vs[j], vs[i]) # "yes"
                     /\ \A j \in 1..(i - 1) : PyLess(vs[i], vs[j]) = "yes"]]
PyMax(vs) ==
    IF vs = <<>> THEN [exc |-> "ValueError", v |-> Null]
    ELSE IF ~Comparable(vs) THEN [exc |-> "TypeError", v |-> Null]
    ELSE [exc |-> "",
          v |-> vs[CHOOSE i \in 1..Len(vs) :
                     /\ \A j \in 1..Len(vs) : PyLess(vs[i], vs[j]) # "yes"
                     /\ \A j \in 1..(i - 1) : PyLess(vs[j], vs[i]) = "yes"]]

RECURSIVE SumSeq(_)
SumSeq(ns) == IF ns = <<>> THEN 0 ELSE Head(ns) + SumSeq(Tail(ns))

RECURSIVE ISqrtIn(_, _, _)
\* The largest r in lo..hi with r * r <= n.
ISqrtIn(n, lo, hi) ==
    IF lo >= hi THEN lo
    ELSE LET mid == (lo + hi + 1) \div 2
         IN  IF mid * mid <= n THEN ISqrtIn(n, mid, hi) ELSE ISqrtIn(n, lo, mid - 1)
ISqrt(n) == ISqrtIn(n, 0, 46340)

\* Uncertainties are held in units of 1/(Scale * UncScale), rounded down.
UncScale == 100

\* statistics.pstdev on numbers: sqrt(sum((x - mean)^2) / n).
pstdev(ns) ==
    LET n == Len(ns)
        sq == [i \in 1..n |-> ns[i] * ns[i]]
        d == n * SumSeq(sq) - SumSeq(ns) * SumSeq(ns)
    IN  ISqrt(d * UncScale * UncScale) \div n

\* uncertainty_bounds: [exc, v].
uncertainty_bounds(vs) ==
    IF Len(vs) > 1
    THEN IF \A i \in 1..Len(vs) : IsNum(vs[i])
         THEN [exc |-> "", v |-> pstdev([i \in 1..Len(vs) |-> vs[i].n])]
         ELSE [exc |-> "TypeError", v |-> 0]
    ELSE [exc |-> "", v |-> 0]

RECURSIVE SortedSeq(_)
\* sorted(S) for a set of values that compare.
SortedSeq(S) ==
    IF S = {} THEN <<>>
    ELSE LET m == CHOOSE x \in S : \A y \in S : PyLess(y, x) # "yes"
         IN  <<m>> \o SortedSeq(S \ {m})

\* sorted({...}): [exc, v].
PySortedSet(S) ==
    IF Cardinality(S) <= 1 \/ (\A x \in S : IsNum(x)) \/ (\A x \in S : IsStr(x))
    THEN [exc |-> "", v |-> SortedSeq(S)]
    ELSE [exc |-> "TypeError", v |-> <<>>]

NoSummary ==
    [temp_range |-> <<Null, Null>>, rain_range |-> <<Null, Null>>,
     conditions |-> <<>>, temp_unc |-> 0, rain_unc |-> 0]

FirstExc(excs) ==
    IF \E i \in 1..Len(excs) : excs[i] # ""
    THEN excs[CHOOSE i \in 1..Len(excs) :
                  excs[i] # "" /\ \A j \in 1..(i - 1) : excs[j] = ""]
    ELSE ""

\* summarize: [exc, v]; the steps raise in the order the code evaluates them.
summarize(forecasts) ==
    LET temps == [i \in 1..Len(forecasts) |-> forecasts[i].temp]
        rains == [i \in 1..Len(forecasts) |-> forecasts[i].rain]
        conds == PySortedSet({forecasts[i].condition : i \in 1..Len(forecasts)})
        tmin == PyMin(temps)
        tmax == PyMax(temps)
        rmin == PyMin(rains)
        rmax == PyMax(rains)
        tunc == uncertainty_bounds(temps)
        runc == uncertainty_bounds(rains)
        exc == FirstExc(<<conds.exc, tmin.exc, tmax.exc, rmin.exc, rmax.exc,
                          tunc.exc, runc.exc>>)
    IN  IF exc # "" THEN [exc |-> exc, v |-> NoSummary]
        ELSE [exc |-> "",
              v |-> [temp_range |-> <<tmin.v, tmax.v>>,
                     rain_range |-> <<rmin.v, rmax.v>>,
                     conditions |-> conds.v,
                     temp_unc |-> tunc.v, rain_unc |-> runc.v]]

\* random.sample(list, 2) of a list of 4: two distinct positions, in order.
Samples == {pk \in (1..4) \X (1..4) : pk[1] # pk[2]}
NoPick == <<0, 0>>

\* adaptive_recommendation: [exc, kind, picks]; pick is the random sample.
adaptive_recommendation(cond, label, pick) ==
    IF label = "Low" THEN [exc |-> "", kind |-> "uncertain", picks |-> NoPick]
    ELSE IF ~IsStr(cond) THEN [exc |-> "AttributeError", kind |-> "", picks |-> NoPick]
    ELSE IF Contains(lower(cond.s), sRain) \/ Contains(lower(cond.s), sStorm)
    THEN [exc |-> "", kind |-> "rainy", picks |-> pick]
    ELSE [exc |-> "", kind |-> "sunny", picks |-> pick]

(***************************************************************************)
(* State.                                                                  *)
(*   norm, score, lab, sev, summ  one call of a normalizer, of             *)
(*       weighted_confidence, confidence_label, detect_severe, summarize:  *)
(*       its arguments, whether it has run, and what it returned.          *)
(*   caller      "api" (the /confidence endpoint) or "main"                *)
(*   showAlerts  main's --alerts flag                                      *)
(*   pc          where the calling thread is: "submit", "as_completed",    *)
(*               "collect", "returned" (fetch_all returned), "done" (the   *)
(*               caller ended), "raised" (fetch_all raised)                *)
(*   fut         future_map: each task's state and its result or exception *)
(*   ready       futures as_completed found finished when it started       *)
(*   waitQ       futures finished since, in completion order               *)
(*   yielded     futures the loop has handled                              *)
(*   results     fetch_all's results list                                  *)
(*   bar         the progress bar: updates made and the last postfix       *)
(*   output      what the caller returned or printed, or the exception     *)
(***************************************************************************)
VARIABLES norm, score, lab, sev, summ,
          caller, showAlerts, pc, fut, ready, waitQ, yielded, results, bar, output

pureVars == <<norm, score, lab, sev, summ>>
fetchVars == <<caller, showAlerts, pc, fut, ready, waitQ, yielded, results, bar, output>>
vars == <<norm, score, lab, sev, summ,
          caller, showAlerts, pc, fut, ready, waitQ, yielded, results, bar, output>>

(***************************************************************************)
(* SpecNormalize: one normalizer applied to one response.                  *)
(***************************************************************************)
NormIdle == [p |-> "", resp |-> CHOOSE r \in FailedResponses : TRUE,
             done |-> FALSE, raised |-> FALSE, out |-> None]

InitNormalize ==
    norm \in {[p |-> p, resp |-> r, done |-> FALSE, raised |-> FALSE, out |-> None] :
                p \in ProviderSet, r \in Responses}

\* The adapter runs: every exception inside it is caught (bare except), so
\* the call returns and never raises.
RunNormalizer ==
    /\ ~norm.done
    /\ norm' = [norm EXCEPT !.done = TRUE, !.raised = FALSE,
                            !.out = Normalize(norm.p, norm.resp)]

(***************************************************************************)
(* SpecConfidence: weighted_confidence applied to one pair of forecasts.   *)
(***************************************************************************)
ScoreTempBase == 126
ScoreTempStep == 35
RainStep == 26

\* Temperatures 12.6, 16.1, 19.6, ... and rainfalls 0, 2.6, 5.2, ...
ScoreForecasts ==
    {Forecast("x", Num(ScoreTempBase + i * ScoreTempStep), Num(j * RainStep), Str(cClear), Num(0)) :
        i \in 0..MaxTempSteps, j \in 0..MaxRainSteps}

ScoreIdle ==
    [f1 |-> None, f2 |-> None, done |-> FALSE, out |-> [exc |-> "", v |-> Dbl(0, 0)]]

InitConfidence ==
    score \in {[f1 |-> a, f2 |-> b, done |-> FALSE, out |-> [exc |-> "", v |-> Dbl(0, 0)]] :
                 a \in ScoreForecasts, b \in ScoreForecasts}

RunConfidence ==
    /\ ~score.done
    /\ score' = [score EXCEPT !.done = TRUE,
                              !.out = weighted_confidence(score.f1, score.f2)]

(***************************************************************************)
(* SpecLabel: confidence_label applied to one score of [0, 100]: the float *)
(* of every tenth, and the floats up to MaxUlps places above and below it. *)
(***************************************************************************)
MaxUlps == 1

\* The distance between the floats of the binade above (k >= 0) or below
\* the float of n / 10, in units u.
Ulp(n, k) == 10 * 2^(Binade(n, FloatOfTenths(n).d + k) + 4)

LabelScores ==
    {Dbl(0, 0)} \cup
    {s \in {Dbl(x, FloatOfTenths(x).d + k * Ulp(x, k)) :
                x \in 1..(100 * Scale), k \in (-MaxUlps)..MaxUlps} :
        ~FloatLess(Dbl(100 * Scale, 0), s)}

LabelIdle == [s |-> Dbl(0, 0), done |-> FALSE, out |-> ""]

InitLabel ==
    lab \in {[s |-> x, done |-> FALSE, out |-> ""] : x \in LabelScores}

RunLabel ==
    /\ ~lab.done
    /\ lab' = [lab EXCEPT !.done = TRUE, !.out = confidence_label(lab.s)]

(***************************************************************************)
(* SpecSevere: detect_severe applied to one condition, rainfall and wind.  *)
(***************************************************************************)
SevereMargin == 2

StormyConds == {Str(cStorm), Str(cThunder), Str(cCycloneUp)}
CalmConds == {Null, Str(<<>>), Str(cClear), Str(cLightRain), Str(cStork)}
SevereConds == StormyConds \cup CalmConds
SevereRains == {Num(10 * Scale + k) : k \in (-SevereMargin)..SevereMargin} \cup {Num(0)}
SevereWinds ==
    {Num(10 * WindScale + k) : k \in (-SevereMargin)..SevereMargin}
        \cup {Num(0), Num(12300000), Num(36 * KmhToMs)}

SevIdle ==
    [cond |-> Null, rain |-> Num(0), wind |-> Num(0), done |-> FALSE,
     out |-> [exc |-> "", severe |-> FALSE, alert |-> NoAlert]]

InitSevere ==
    sev \in {[cond |-> c, rain |-> r, wind |-> w, done |-> FALSE,
              out |-> [exc |-> "", severe |-> FALSE, alert |-> NoAlert]] :
               c \in SevereConds, r \in SevereRains, w \in SevereWinds}

RunSevere ==
    /\ ~sev.done
    /\ sev' = [sev EXCEPT !.done = TRUE,
                          !.out = detect_severe(sev.cond, sev.rain, sev.wind)]

(***************************************************************************)
(* SpecSummarize: summarize applied to one batch of 0..MaxBatch forecasts. *)
(***************************************************************************)
SummForecasts ==
    {Forecast("x", Num(t), Num(r), Str(c), Num(0)) :
        t \in {TempBase, TempBase + 50}, r \in {0, 50}, c \in {cClear, cLightRain}}

Batches == UNION {[1..n -> SummForecasts] : n \in 0..MaxBatch}

SummIdle == [batch |-> <<>>, done |-> FALSE, out |-> [exc |-> "", v |-> NoSummary]]

InitSummarize ==
    summ \in {[batch |-> b, done |-> FALSE, out |-> [exc |-> "", v |-> NoSummary]] :
                b \in Batches}

RunSummarize ==
    /\ ~summ.done
    /\ summ' = [summ EXCEPT !.done = TRUE, !.out = summarize(summ.batch)]

(***************************************************************************)
(* The callers of fetch_all: the /confidence endpoint and main.            *)
(***************************************************************************)
NoRec == [exc |-> "", kind |-> "", picks |-> NoPick]

NoOutput ==
    [kind |-> "none", exc |-> "", calls |-> {}, printed |-> {},
     confidence |-> Dbl(0, 0), label |-> "", summary |-> NoSummary, wind_max |-> Num(0),
     severe |-> FALSE, alert |-> NoAlert, rec |-> NoRec, sources |-> <<>>]

\* `len(forecasts) < 2` of the endpoint and of main.
api_not_enough_lt1(forecasts) == Len(forecasts) < 1
api_not_enough(forecasts) == Len(forecasts) < 2
main_not_enough(forecasts) == Len(forecasts) < 2

(***************************************************************************)
(* float(): the floats are the numbers and inf, -inf, nan.  A number       *)
(* beyond the fixed-point range is held as the largest one in range.       *)
(***************************************************************************)
Inf == [t |-> "inf", n |-> 0, s |-> <<>>]
NegInf == [t |-> "ninf", n |-> 0, s |-> <<>>]
NaN == [t |-> "nan", n |-> 0, s |-> <<>>]

SatMul(a, b) == IF a # 0 /\ b > 2147483647 \div a THEN 2147483647 ELSE a * b
SatAdd(a, b) == IF b > 2147483647 - a THEN 2147483647 ELSE a + b

RECURSIVE SatPow10(_)
SatPow10(e) ==
    IF e <= 0 THEN 1
    ELSE IF e >= 10 THEN 2147483647
    ELSE SatMul(10, SatPow10(e - 1))

\* str.strip() of the whitespace of the alphabet in use.
Strip(s) ==
    LET inked == {i \in 1..Len(s) : s[i] # " "}
        lo == CHOOSE i \in inked : \A j \in inked : i <= j
        hi == CHOOSE i \in inked : \A j \in inked : i >= j
    IN  IF inked = {} THEN <<>> ELSE SubSeq(s, lo, hi)

\* digit (["_"] digit)*
DigitPart(x) ==
    /\ x # <<>>
    /\ \A i \in 1..Len(x) : IsDigit(x[i]) \/ x[i] = "_"
    /\ IsDigit(x[1]) /\ IsDigit(x[Len(x)])
    /\ \A i \in 1..(Len(x) - 1) : ~(x[i] = "_" /\ x[i + 1] = "_")

Unsigned(x) == IF x # <<>> /\ x[1] \in {"+", "-"} THEN Tail(x) ELSE x
IsNegative(x) == x # <<>> /\ x[1] = "-"
Positions(x, c) == {i \in 1..Len(x) : x[i] = c}
Before(x, i) == SubSeq(x, 1, i - 1)
After(x, i) == SubSeq(x, i + 1, Len(x))
TheOne(S) == CHOOSE i \in S : TRUE

\* digitpart ["." [digitpart]] | "." digitpart
IsMantissa(m) ==
    LET dots == Positions(m, ".")
    IN  IF dots = {} THEN DigitPart(m)
        ELSE /\ Cardinality(dots) = 1
             /\ Before(m, TheOne(dots)) = <<>> \/ DigitPart(Before(m, TheOne(dots)))
             /\ After(m, TheOne(dots)) = <<>> \/ DigitPart(After(m, TheOne(dots)))
             /\ Len(m) > 1

IsExponent(x) == DigitPart(Unsigned(x))

\* A decimal numeral without its sign, in lower case.
IsDecimal(u) ==
    LET es == Positions(u, "e")
    IN  IF es = {} THEN IsMantissa(u)
        ELSE /\ Cardinality(es) = 1
             /\ IsMantissa(Before(u, TheOne(es)))
             /\ IsExponent(After(u, TheOne(es)))

sInf == <<"i","n","f">>
sInfinity == <<"i","n","f","i","n","i","t","y">>
sNan == <<"n","a","n">>

\* The text float() accepts.
IsFloatText(s) ==
    LET u == Unsigned(lower(Strip(s)))
    IN  u \in {sInf, sInfinity, sNan} \/ IsDecimal(u)

DigitsOf(x) == SelectSeq(x, IsDigit)

\* A run of digits without its leading zeros.
StripZeros(x) ==
    LET sig == {i \in 1..Len(x) : x[i] # "0"}
        lo == CHOOSE i \in sig : \A j \in sig : i <= j
    IN  IF sig = {} THEN <<>> ELSE SubSeq(x, lo, Len(x))

RECURSIVE DigitsFold(_, _)
DigitsFold(x, acc) ==
    IF x = <<>> THEN acc
    ELSE DigitsFold(Tail(x), SatAdd(SatMul(acc, 10), DigitVal(Head(x))))

\* The number a run of digits spells; more than ten significant digits are
\* beyond the range.
DigitsValue(x) ==
    IF Len(StripZeros(x)) > 10 THEN 2147483647 ELSE DigitsFold(StripZeros(x), 0)

\* The parts of a decimal numeral without its sign: its significant digits
\* ds and the power of ten e10 with value = 0.ds * 10^e10.
DecimalParts(u) ==
    LET es == Positions(u, "e")
        m == IF es = {} THEN u ELSE Before(u, TheOne(es))
        x == IF es = {} THEN <<>> ELSE After(u, TheOne(es))
        dots == Positions(m, ".")
        int == IF dots = {} THEN DigitsOf(m) ELSE DigitsOf(Before(m, TheOne(dots)))
        frac == IF dots = {} THEN <<>> ELSE DigitsOf(After(m, TheOne(dots)))
        em == Min2(DigitsValue(DigitsOf(x)), 1000000)
        ds == StripZeros(int \o frac)
    IN  [ds |-> ds,
         e10 |-> (IF IsNegative(x) THEN -em ELSE em) + Len(ds) - Len(frac)]

\* The digits of 2^1024 - 2^970, halfway between the largest float and
\* 2^1024; a numeral from there on converts to inf.
FloatLimitDigits ==
    <<"1","7","9","7","6","9","3","1","3","4","8","6","2","3","1",
      "5","8","0","7","9","3","7","2","8","9","7","1","4","0","5",
      "3","0","3","4","1","5","0","7","9","9","3","4","1","3","2",
      "7","1","0","0","3","7","8","2","6","9","3","6","1","7","3",
      "7","7","8","9","8","0","4","4","4","9","6","8","2","9","2",
      "7","6","4","7","5","0","9","4","6","6","4","9","0","1","7",
      "9","7","7","5","8","7","2","0","7","0","9","6","3","3","0",
      "2","8","6","4","1","6","6","9","2","8","8","7","9","1","0",
      "9","4","6","5","5","5","5","4","7","8","5","1","9","4","0",
      "4","0","2","6","3","0","6","5","7","4","8","8","6","7","1",
      "5","0","5","8","2","0","6","8","1","9","0","8","9","0","2",
      "0","0","0","7","0","8","3","8","3","6","7","6","2","7","3",
      "8","5","4","8","4","5","8","1","7","7","1","1","5","3","1",
      "7","6","4","4","7","5","7","3","0","2","7","0","0","6","9",
      "8","5","5","5","7","1","3","6","6","9","5","9","6","2","2",
      "8","4","2","9","1","4","8","1","9","8","6","0","8","3","4",
      "9","3","6","4","7","5","2","9","2","7","1","9","0","7","4",
      "1","6","8","4","4","4","3","6","5","5","1","0","7","0","4",
      "3","4","2","7","1","1","5","5","9","6","9","9","5","0","8",
      "0","9","3","0","4","2","8","8","0","1","7","7","9","0","4",
      "1","7","4","4","9","7","7","9","2">>

\* Two runs of digits as decimal fractions 0.a < 0.b: the first place they
\* differ decides, and a proper prefix is less.
DigitsLess(a, b) ==
    LET differ == {i \in 1..Len(a) : i <= Len(b) /\ a[i] # b[i]}
        first == CHOOSE i \in differ : \A j \in differ : i <= j
    IN  IF differ = {} THEN Len(a) < Len(b)
        ELSE DigitVal(a[first]) < DigitVal(b[first])

Overflows(parts) ==
    /\ parts.ds # <<>>
    /\ \/ parts.e10 > 309
       \/ parts.e10 = 309 /\ ~DigitsLess(parts.ds, FloatLimitDigits)

\* The value of a decimal numeral without its sign, in units of 10^(-scale10),
\* rounded down.
DecimalValue(u, scale10) ==
    LET parts == DecimalParts(u)
        p == parts.e10 + scale10 - Len(parts.ds)
    IN  IF p >= 0 THEN SatMul(DigitsValue(parts.ds), SatPow10(p))
        ELSE IF Len(parts.ds) + p <= 0 THEN 0
        ELSE DigitsValue(SubSeq(parts.ds, 1, Len(parts.ds) + p))

Log10(scale) == CHOOSE e \in 0..9 : 10^e = scale

\* float(v): [exc, v].  Numbers convert, text converts when it is a
\* numeral (ValueError otherwise), None raises TypeError.  A number is held
\* in units of 1/scale.
FloatOf(v, scale) ==
    IF v.t = "num" THEN [exc |-> "", v |-> v]
    ELSE IF v.t # "str" THEN [exc |-> "TypeError", v |-> NaN]
    ELSE IF ~IsFloatText(v.s) THEN [exc |-> "ValueError", v |-> NaN]
    ELSE LET t == lower(Strip(v.s))
             u == Unsigned(t)
         IN  [exc |-> "",
              v |-> IF u = sNan THEN NaN
                    ELSE IF u \in {sInf, sInfinity} \/ Overflows(DecimalParts(u))
                    THEN (IF IsNegative(t) THEN NegInf ELSE Inf)
                    ELSE Num((IF IsNegative(t) THEN -1 ELSE 1)
                             * DecimalValue(u, Log10(scale)))]

FloatExc(v) == FloatOf(v, 1).exc

\* Python `a > b` on two floats: false whenever one is nan.
FloatGreater(a, b) ==
    CASE a.t = "nan" \/ b.t = "nan" -> FALSE
      [] a.t = "inf" -> b.t # "inf"
      [] a.t = "ninf" -> FALSE
      [] b.t = "inf" -> FALSE
      [] b.t = "ninf" -> TRUE
      [] OTHER -> a.n > b.n

RECURSIVE MaxFloats(_, _)
\* max() over floats: the first item, replaced by each later greater one.
MaxFloats(xs, m) ==
    IF xs = <<>> THEN m
    ELSE MaxFloats(Tail(xs), IF FloatGreater(Head(xs), m) THEN Head(xs) ELSE m)

\* round(v, 1) and round(v, 2) raise TypeError on anything but a number.
RoundExc(v) == IF IsNum(v) THEN "" ELSE "TypeError"

\* SourceOut(name=..., temp=float(..), rain=float(..), wind=float(..),
\* condition=..): the exception building it raises, "" when none.
SourceOutExc(f) ==
    FirstExc(<<FloatExc(f.temp), FloatExc(f.rain), FloatExc(f.wind),
               IF IsStr(f.condition) THEN "" ELSE "ValidationError">>)

\* One line of main's source listing.
SourceLineExc(f) ==
    FirstExc(<<RoundExc(f.temp), RoundExc(f.rain), RoundExc(f.wind)>>)

\* max(s.wind for s in sources): each s.wind is float(f["wind"]).
MaxWind(forecasts) ==
    LET ws == [i \in 1..Len(forecasts) |-> FloatOf(forecasts[i].wind, WindScale).v]
    IN  MaxFloats(Tail(ws), Head(ws))

\* `f1, f2 = forecasts[0], forecasts[1]`.
first_two_last(forecasts) == <<forecasts[1], forecasts[Len(forecasts)]>>
first_two(forecasts) == <<forecasts[1], forecasts[2]>>

\* The five engine calls both callers make on a batch, in the code's order.
\* Each step runs only if no earlier one raised; calls is what was invoked.
Engine(forecasts, pick) ==
    IF Len(forecasts) < 2
    THEN [NoOutput EXCEPT !.kind = "raised", !.exc = "IndexError"]
    ELSE
    LET f1 == first_two(forecasts)[1]
        f2 == first_two(forecasts)[2]
        conf == weighted_confidence(f1, f2)
        label == confidence_label(conf.v)
        summary == summarize(forecasts)
        sv == detect_severe(f1.condition, f1.rain, f1.wind)
        rec == adaptive_recommendation(f1.condition, label, pick)
        c1 == {"weighted_confidence"}
        c2 == c1 \cup {"confidence_label"}
        c3 == c2 \cup {"summarize"}
        c4 == c3 \cup {"detect_severe"}
        c5 == c4 \cup {"adaptive_recommendation"}
    IN  IF conf.exc # ""
        THEN [NoOutput EXCEPT !.kind = "raised", !.exc = conf.exc, !.calls = c1]
        ELSE IF summary.exc # ""
        THEN [NoOutput EXCEPT !.kind = "raised", !.exc = summary.exc, !.calls = c3]
        ELSE IF sv.exc # ""
        THEN [NoOutput EXCEPT !.kind = "raised", !.exc = sv.exc, !.calls = c4]
        ELSE IF rec.exc # ""
        THEN [NoOutput EXCEPT !.kind = "raised", !.exc = rec.exc, !.calls = c5]
        ELSE [NoOutput EXCEPT !.kind = "computed", !.calls = c5,
                              !.confidence = conf.v, !.label = label,
                              !.summary = summary.v, !.severe = sv.severe,
                              !.alert = sv.alert, !.rec = rec]

\* The /confidence endpoint after fetch_all returned forecasts.
confidence(forecasts, pick) ==
    IF api_not_enough(forecasts)
    THEN [NoOutput EXCEPT !.kind = "payload", !.confidence = Dbl(0, 0), !.label = "Low",
                          !.summary = [NoSummary EXCEPT
                                          !.temp_range = <<Num(0), Num(0)>>,
                                          !.rain_range = <<Num(0), Num(0)>>],
                          !.rec = [exc |-> "", kind |-> "try_again", picks |-> NoPick]]
    ELSE LET e == Engine(forecasts, pick)
             srcExc == FirstExc([i \in 1..Len(forecasts) |-> SourceOutExc(forecasts[i])])
         IN  IF e.kind = "raised" THEN e
             ELSE IF srcExc # "" THEN [NoOutput EXCEPT !.kind = "raised", !.exc = srcExc,
                                                       !.calls = e.calls]
             ELSE [e EXCEPT !.kind = "payload",
                            !.wind_max = MaxWind(forecasts),
                            !.sources = [i \in 1..Len(forecasts) |-> forecasts[i].source]]

\* main after fetch_all returned forecasts; alerts is the --alerts flag.
\* printed is the set of sections written before main ended or raised.
main(forecasts, alerts, pick) ==
    IF main_not_enough(forecasts)
    THEN [NoOutput EXCEPT !.kind = "not_enough", !.printed = {"not_enough"}]
    ELSE LET e == Engine(forecasts, pick)
             srcExc == FirstExc([i \in 1..Len(forecasts) |-> SourceLineExc(forecasts[i])])
             joinExc == IF \A i \in 1..Len(e.summary.conditions) :
                                IsStr(e.summary.conditions[i])
                        THEN "" ELSE "TypeError"
             names == [i \in 1..Len(forecasts) |-> forecasts[i].source]
             upto == {"sources", "summary", "confidence"}
                         \cup (IF e.severe THEN {"severe"} ELSE {})
         IN  IF e.kind = "raised" THEN e
             ELSE IF srcExc # "" THEN [e EXCEPT !.kind = "raised", !.exc = srcExc]
             ELSE IF joinExc # ""
             THEN [e EXCEPT !.kind = "raised", !.exc = joinExc, !.sources = names,
                            !.printed = {"sources"}]
             ELSE IF alerts
             THEN [e EXCEPT !.kind = "raised", !.exc = "NameError", !.sources = names,
                            !.printed = upto]
             ELSE [e EXCEPT !.kind = "report", !.sources = names,
                            !.printed = upto \cup {"recommendation"}
                                \cup (IF e.severe THEN {"emergency"} ELSE {})]

(***************************************************************************)
(* fetch_all: four adapter tasks on a pool of four workers, collected with *)
(* as_completed by the calling thread.                                     *)
(***************************************************************************)
Adapters == 1..Len(Providers)

TempA == TempBase
TempB == TempBase + TempStep
TempC == TempBase + 11 * TempStep

OkResp(temp, rain, wind, cond, code) ==
    [status |-> "ok", hasTarget |-> TRUE, temp |-> temp, rain |-> rain,
     rain3h |-> Missing, wind |-> wind, cond |-> cond, code |-> code]
FailResp(st) == CHOOSE r \in FailedResponses : r.status = st

\* The responses each provider is given in the fetch model.
FetchResponses(i) ==
    CASE i = 1 -> {FailResp("timeout"),
                   OkResp(Num(TempA), Missing, Num(5), Str(cClear), Missing),
                   [OkResp(Null, Obj, Num(5), Str(cClear), Missing)
                        EXCEPT !.rain3h = Num(0)]}
      [] i = 2 -> {FailResp("http_error"),
                   OkResp(Num(TempB), Num(0), Num(10), Str(cLightRain), Missing),
                   OkResp(Num(TempC), Num(125), Num(10), Str(cClear), Missing)}
      [] i = 3 -> {[OkResp(Num(TempA), Num(0), Num(18), Missing, Num(0)) EXCEPT !.hasTarget = FALSE],
                   OkResp(Num(TempB), Num(15), Num(18), Missing, Num(95)),
                   OkResp(Num(TempC), Num(0), Num(36), Missing, Num(0)),
                   OkResp(Num(TempB), Num(0), Str(sNan), Missing, Num(95))}
      [] i = 4 -> {FailResp("badjson"),
                   OkResp(Num(TempC), Num(0), Num(18), Str(cClear), Missing)}

FutNew == [state |-> "unsubmitted", kind |-> "", value |-> None]

InitFetch ==
    /\ caller \in {"api", "main"}
    /\ showAlerts \in (IF caller = "main" THEN BOOLEAN ELSE {FALSE})
    /\ pc = "submit"
    /\ fut = [i \in Adapters |-> FutNew]
    /\ ready = {}
    /\ waitQ = <<>>
    /\ yielded = {}
    /\ results = <<>>
    /\ bar = [n |-> 0, postfix |-> ""]
    /\ output = NoOutput

\* ex.submit(func) for the next entry of funcs; the task starts on a worker.
Submit ==
    /\ pc = "submit"
    /\ \E i \in Adapters :
        /\ fut[i].state = "unsubmitted"
        /\ \A j \in 1..(i - 1) : fut[j].state # "unsubmitted"
        /\ fut' = [fut EXCEPT ![i].state = "running"]
        /\ pc' = IF i = Len(Providers) THEN "as_completed" ELSE "submit"
    /\ UNCHANGED <<caller, showAlerts, ready, waitQ, yielded, results, bar, output>>
    /\ UNCHANGED pureVars

\* A finished future reaches the as_completed waiter once that is installed.
Notify(i) == IF pc = "collect" THEN Append(waitQ, i) ELSE waitQ

\* A task ends: the adapter has normalized the provider's response.
TaskFinish(i) ==
    /\ fut[i].state = "running"
    /\ \E resp \in FetchResponses(i) :
        fut' = [fut EXCEPT ![i] = [state |-> "finished", kind |-> "value",
                                   value |-> Normalize(Providers[i], resp)]]
    /\ waitQ' = Notify(i)
    /\ UNCHANGED <<caller, showAlerts, pc, ready, yielded, results, bar, output>>
    /\ UNCHANGED pureVars

\* A task ends with an exception: an adapter registered in funcs that raises
\* (the four get_* adapters catch everything themselves).
TaskRaise(i) ==
    /\ fut[i].state = "running"
    /\ fut' = [fut EXCEPT ![i] = [state |-> "finished", kind |-> "exception",
                                  value |-> None]]
    /\ waitQ' = Notify(i)
    /\ UNCHANGED <<caller, showAlerts, pc, ready, yielded, results, bar, output>>
    /\ UNCHANGED pureVars

\* as_completed(future_map) starts: the futures already finished are yielded
\* first, in no particular order; the others as they finish.
StartAsCompleted ==
    /\ pc = "as_completed"
    /\ ready' = {i \in Adapters : fut[i].state = "finished"}
    /\ pc' = "collect"
    /\ UNCHANGED <<caller, showAlerts, fut, waitQ, yielded, results, bar, output>>
    /\ UNCHANGED pureVars

\* `if res:` on a future's result.
Present_always(res) == TRUE
Present(res) == res.kind = "dict"

\* `except: pass` around future.result(): every exception is caught.
Caught(f) == TRUE

\* The loop body for future i: keep a present result, swallow an exception,
\* advance the progress bar.
CollectBody(i) ==
    /\ results' = IF fut[i].kind = "value" /\ Present(fut[i].value)
                  THEN Append(results, fut[i].value)
                  ELSE results
    /\ bar' = [n |-> bar.n + 1, postfix |-> Providers[i]]
    /\ yielded' = yielded \cup {i}
    /\ pc' = IF fut[i].kind = "exception" /\ ~Caught(fut[i]) THEN "raised" ELSE pc

Collect ==
    /\ pc = "collect"
    /\ \/ \E i \in ready :
            /\ ready' = ready \ {i}
            /\ waitQ' = waitQ
            /\ CollectBody(i)
       \/ /\ ready = {}
          /\ waitQ # <<>>
          /\ ready' = ready
          /\ waitQ' = Tail(waitQ)
          /\ CollectBody(Head(waitQ))
    /\ UNCHANGED <<caller, showAlerts, fut, output>>
    /\ UNCHANGED pureVars

\* The loop is exhausted and the executor's with-block has joined its
\* workers (shutdown(wait=True)).
MayReturn_enough == Len(results) >= 2 \/ yielded = Adapters
MayReturn ==
    /\ yielded = Adapters
    /\ \A i \in Adapters : fut[i].state = "finished"

Return ==
    /\ pc = "collect"
    /\ MayReturn
    /\ pc' = "returned"
    /\ UNCHANGED <<caller, showAlerts, fut, ready, waitQ, yielded, results, bar, output>>
    /\ UNCHANGED pureVars

\* The caller handles the batch.
CallerStep ==
    /\ pc = "returned"
    /\ \E pick \in Samples :
        output' = IF caller = "api" THEN confidence(results, pick)
                  ELSE main(results, showAlerts, pick)
    /\ pc' = "done"
    /\ UNCHANGED <<caller, showAlerts, fut, ready, waitQ, yielded, results, bar>>
    /\ UNCHANGED pureVars

FetchIdle ==
    /\ caller = "api" /\ showAlerts = FALSE /\ pc = "idle"
    /\ fut = [i \in Adapters |-> FutNew]
    /\ ready = {} /\ waitQ = <<>> /\ yielded = {} /\ results = <<>>
    /\ bar = [n |-> 0, postfix |-> ""] /\ output = NoOutput

PureIdle ==
    norm = NormIdle /\ score = ScoreIdle /\ lab = LabelIdle /\ sev = SevIdle /\ summ = SummIdle

Init == InitFetch /\ PureIdle
Next ==
    \/ Submit
    \/ \E i \in Adapters : TaskFinish(i)
    \/ \E i \in Adapters : TaskRaise(i)
    \/ StartAsCompleted
    \/ Collect
    \/ Return
    \/ CallerStep
Spec == Init /\ [][Next]_vars

PureIdleBut(v) ==
    /\ v = "norm" \/ norm = NormIdle
    /\ v = "score" \/ score = ScoreIdle
    /\ v = "lab" \/ lab = LabelIdle
    /\ v = "sev" \/ sev = SevIdle
    /\ v = "summ" \/ summ = SummIdle

InitNormalizeAll == InitNormalize /\ PureIdleBut("norm") /\ FetchIdle
NextNormalize == RunNormalizer /\ UNCHANGED <<score, lab, sev, summ>> /\ UNCHANGED fetchVars
SpecNormalize == InitNormalizeAll /\ [][NextNormalize]_vars

InitConfidenceAll == InitConfidence /\ PureIdleBut("score") /\ FetchIdle
NextConfidence == RunConfidence /\ UNCHANGED <<norm, lab, sev, summ>> /\ UNCHANGED fetchVars
SpecConfidence == InitConfidenceAll /\ [][NextConfidence]_vars

InitLabelAll == InitLabel /\ PureIdleBut("lab") /\ FetchIdle
NextLabel == RunLabel /\ UNCHANGED <<norm, score, sev, summ>> /\ UNCHANGED fetchVars
SpecLabel == InitLabelAll /\ [][NextLabel]_vars

InitSevereAll == InitSevere /\ PureIdleBut("sev") /\ FetchIdle
NextSevere == RunSevere /\ UNCHANGED <<norm, score, lab, summ>> /\ UNCHANGED fetchVars
SpecSevere == InitSevereAll /\ [][NextSevere]_vars

InitSummarizeAll == InitSummarize /\ PureIdleBut("summ") /\ FetchIdle
NextSummarize == RunSummarize /\ UNCHANGED <<norm, score, lab, sev>> /\ UNCHANGED fetchVars
SpecSummarize == InitSummarizeAll /\ [][NextSummarize]_vars

(***************************************************************************)
(* Properties.                                                             *)
(***************************************************************************)
PresentAdapters == {i \in Adapters : fut[i].kind = "value" /\ fut[i].value.kind = "dict"}
Returned == pc \in {"returned", "done"}

\* C1: fetch_all never raises, and the batch it returns holds exactly one
\* forecast for every adapter whose task produced a present result and
\* nothing for an adapter whose task returned None, timed out or raised.
C1_BatchIsExactlyThePresentResults ==
    /\ pc # "raised"
    /\ Returned =>
        /\ Len(results) = Cardinality(PresentAdapters)
        /\ \A i \in PresentAdapters :
              Cardinality({k \in 1..Len(results) : results[k] = fut[i].value}) = 1
        /\ \A k \in 1..Len(results) :
              \E i \in PresentAdapters : results[k] = fut[i].value

\* Two tasks succeeded, one returned None and one raised: a batch of 2.
C1_Witness ==
    /\ pc = "returned"
    /\ Len(results) = 2
    /\ \E i \in Adapters : fut[i].kind = "exception"
    /\ \E i \in Adapters : fut[i].kind = "value" /\ fut[i].value = None

\* C2: fetch_all has returned only when every one of the 4 tasks has
\* finished and been collected; it never returns while a task is in flight,
\* however many forecasts it already holds.
C2_ReturnsOnlyAfterAllTasksFinished ==
    Returned => \A i \in Adapters : fut[i].state = "finished" /\ i \in yielded

\* fetch_all returned a batch of 2 or more after collecting all 4 tasks,
\* the last of which gave no forecast.
C2_Witness ==
    /\ pc = "returned"
    /\ Len(results) >= 2
    /\ bar.n = Len(Providers)
    /\ \E i \in Adapters : Providers[i] = bar.postfix /\ i \notin PresentAdapters

\* C3: when fetch_all returned fewer than 2 forecasts the caller computes
\* nothing (no engine function is invoked); the endpoint answers the
\* fallback payload with label "Low" and confidence 0, main prints that
\* there is not enough data and returns.
C3_FallbackBelowTwoForecasts ==
    (pc = "done" /\ Len(results) < 2) =>
        /\ output.calls = {}
        /\ output.exc = ""
        /\ caller = "api" =>
              /\ output.kind = "payload"
              /\ output.label = "Low"
              /\ output.confidence = Dbl(0, 0)
        /\ caller = "main" =>
              /\ output.kind = "not_enough"
              /\ output.printed = {"not_enough"}

\* The endpoint answered a batch of exactly one forecast.
C3_Witness ==
    /\ pc = "done"
    /\ Len(results) = 1
    /\ caller = "api"
    /\ output.label = "Low"

WellFormed(f) ==
    /\ f.source # ""
    /\ IsNum(f.temp) /\ IsNum(f.rain) /\ IsNum(f.wind)
    /\ IsStr(f.condition) /\ f.condition.s # <<>>

\* C4: a normalizer never raises; a network error, a non-2xx response, an
\* unparsable body or a missing target-time entry gives an absent result,
\* and so does a null or non-numeric field: every present result has a
\* non-empty source, numeric temp, rain and wind and a non-empty condition.
C4_NormalizerFailSoftAndWellFormed ==
    norm.done =>
        /\ ~norm.raised
        /\ norm.resp.status # "ok" => norm.out = None
        /\ (~norm.resp.hasTarget /\ norm.p # "Weatherstack") => norm.out = None
        /\ norm.out.kind = "dict" => WellFormed(norm.out)

WindFactor(unit) ==
    CASE unit = "mph" -> MphToMs
      [] unit = "kmh" -> KmhToMs
      [] unit = "ms" -> WindScale

\* C5: the wind of every forecast a normalizer returns is the provider's
\* reading converted to m/s from the provider's unit (mph * 0.44704,
\* km/h * 0.277778, m/s unchanged), for Open-Meteo as for the others.
C5_WindInMetersPerSecond ==
    (norm.done /\ norm.out.kind = "dict" /\ IsNum(norm.resp.wind)) =>
        norm.out.wind = Num(norm.resp.wind.n * WindFactor(NativeWindUnit(norm.p)))

NumsOf(batch, field) ==
    {(IF field = "temp" THEN batch[i].temp.n ELSE batch[i].rain.n) : i \in 1..Len(batch)}
IsLeast(x, S) == x \in S /\ \A y \in S : x <= y
IsGreatest(x, S) == x \in S /\ \A y \in S : x >= y

\* For a batch of 1 or more: the ranges are the least and greatest value of
\* the batch and conditions is the ascending list of the distinct texts.
SummaryRangesRight(batch, out) ==
    /\ out.exc = ""
    /\ IsLeast(out.v.temp_range[1].n, NumsOf(batch, "temp"))
    /\ IsGreatest(out.v.temp_range[2].n, NumsOf(batch, "temp"))
    /\ IsLeast(out.v.rain_range[1].n, NumsOf(batch, "rain"))
    /\ IsGreatest(out.v.rain_range[2].n, NumsOf(batch, "rain"))
    /\ {out.v.conditions[i] : i \in 1..Len(out.v.conditions)}
          = {batch[i].condition : i \in 1..Len(batch)}
    /\ \A i \in 1..(Len(out.v.conditions) - 1) :
          StrLess(out.v.conditions[i].s, out.v.conditions[i + 1].s)

\* C6: summarize of a batch of 0 or 1 forecasts returns a summary whose two
\* uncertainties are 0 (with 1 forecast the ranges are that sample); of a
\* batch of 2 or more, the ranges are min/max and conditions the sorted
\* distinct texts.
C6_SummarizeSmallBatches ==
    summ.done =>
        /\ Len(summ.batch) <= 1 =>
              /\ summ.out.exc = ""
              /\ summ.out.v.temp_unc = 0
              /\ summ.out.v.rain_unc = 0
        /\ Len(summ.batch) >= 1 => SummaryRangesRight(summ.batch, summ.out)

\* For a batch that is not empty summarize does as C6 says.
C6_NonEmptyBatches ==
    (summ.done /\ Len(summ.batch) >= 1) =>
        /\ SummaryRangesRight(summ.batch, summ.out)
        /\ Len(summ.batch) = 1 => summ.out.v.temp_unc = 0 /\ summ.out.v.rain_unc = 0

Clamp(x, lo, hi) == IF x < lo THEN lo ELSE IF x > hi THEN hi ELSE x
Dist(a, b) == IF a >= b THEN a - b ELSE b - a

\* C7: weighted_confidence(f1, f2) is 100 - (4 |dt| + 5 |dr|) clamped into
\* [0, 100]; in particular it always lies in [0, 100].
C7_ScoreIsClampedFormula ==
    score.done =>
        /\ score.out.exc = ""
        /\ score.out.v =
              Dbl(Clamp(100 * Scale - 4 * Dist(score.f1.temp.n, score.f2.temp.n)
                          - 5 * Dist(score.f1.rain.n, score.f2.rain.n),
                        0, 100 * Scale), 0)
        /\ ~FloatLess(score.out.v, Dbl(0, 0))
        /\ ~FloatLess(Dbl(100 * Scale, 0), score.out.v)

\* What does hold of the score: it lies in [0, 100], it is symmetric, and
\* the tenth nearest to it is the clamped formula.
C7_ScoreNearFormula ==
    score.done =>
        /\ score.out.exc = ""
        /\ score.out.v.n =
              Clamp(100 * Scale - 4 * Dist(score.f1.temp.n, score.f2.temp.n)
                      - 5 * Dist(score.f1.rain.n, score.f2.rain.n),
                    0, 100 * Scale)
        /\ ~FloatLess(score.out.v, Dbl(0, 0))
        /\ ~FloatLess(Dbl(100 * Scale, 0), score.out.v)
        /\ score.out = weighted_confidence(score.f2, score.f1)

\* A pair whose score by the formula is 60 and whose computed score is the
\* float below 60, labelled Low.
C7_BelowSixty ==
    /\ score.done
    /\ 4 * Dist(score.f1.temp.n, score.f2.temp.n)
          + 5 * Dist(score.f1.rain.n, score.f2.rain.n) = 40 * Scale
    /\ FloatLess(score.out.v, Dbl(60 * Scale, 0))
    /\ confidence_label(score.out.v) = "Low"

\* The order of a float s and k tenths.
Below(s, k) == s.n < k \/ (s.n = k /\ s.d < 0)

\* C8: confidence_label gives every score of [0, 100] exactly one label:
\* "High" iff s >= 85, "Moderate" iff 60 <= s < 85, "Low" iff s < 60.
C8_LabelBands ==
    lab.done =>
        /\ lab.out \in {"High", "Moderate", "Low"}
        /\ lab.out = "High" <=> ~Below(lab.s, 85 * Scale)
        /\ lab.out = "Moderate" <=> (~Below(lab.s, 60 * Scale) /\ Below(lab.s, 85 * Scale))
        /\ lab.out = "Low" <=> Below(lab.s, 60 * Scale)

\* The score exactly 85 is labelled High.
C8_Witness == lab.done /\ lab.s = Dbl(85 * Scale, 0) /\ lab.out = "High"

\* The float just below 60 is labelled Low.
C8_JustBelowSixty == lab.done /\ lab.s.n = 60 * Scale /\ lab.s.d < 0 /\ lab.out = "Low"

\* C9: detect_severe takes the first match of: stormy text (contains
\* "storm" or "cyclone" in any case), rainfall > 10, wind > 10, else not
\* severe; the thresholds are strict and a message is there iff severe.
C9_SevereFirstMatch ==
    sev.done =>
        /\ sev.out.exc = ""
        /\ sev.out.severe <=> sev.out.alert # NoAlert
        /\ IF sev.cond \in StormyConds
           THEN sev.out.severe /\ sev.out.alert.kind = "storm"
           ELSE IF sev.rain.n > 10 * Scale
           THEN sev.out.severe /\ sev.out.alert.kind = "rain"
           ELSE IF sev.wind.n > 10 * WindScale
           THEN sev.out.severe /\ sev.out.alert.kind = "wind"
           ELSE ~sev.out.severe /\ sev.out.alert = NoAlert

\* Stormy text with heavy rain and strong wind: the storm message wins.
C9_Witness ==
    /\ sev.done
    /\ sev.cond = Str(cThunder)
    /\ sev.rain.n > 10 * Scale
    /\ sev.wind.n > 10 * WindScale
    /\ sev.out.alert.kind = "storm"

\* The caller reported a confidence: the endpoint returned its payload, or
\* main printed the confidence line.
Reported ==
    /\ pc = "done"
    /\ Len(results) >= 2
    /\ output.kind = "payload" \/ "confidence" \in output.printed

RecKindOf(cond, label) ==
    IF label = "Low" THEN "uncertain"
    ELSE IF Contains(lower(cond.s), sRain) \/ Contains(lower(cond.s), sStorm) THEN "rainy"
    ELSE "sunny"

\* C10: with a batch of 2 or more, the reported confidence is the score of
\* the first two forecasts in completion order, severity and recommendation
\* come from the first forecast alone and the summary from the whole batch.
C10_ReportFollowsCompletionOrder ==
    Reported =>
        /\ output.confidence = weighted_confidence(results[1], results[2]).v
        /\ output.label = confidence_label(output.confidence)
        /\ output.severe
              = detect_severe(results[1].condition, results[1].rain, results[1].wind).severe
        /\ output.alert
              = detect_severe(results[1].condition, results[1].rain, results[1].wind).alert
        /\ output.rec.kind = RecKindOf(results[1].condition, output.label)
        /\ output.summary = summarize(results).v

\* The present results in the order the adapters are registered.
InProviderOrder == SelectSeq([i \in Adapters |-> fut[i].value], LAMBDA v : v.kind = "dict")

\* A run whose report differs, in confidence and in severity, from the one
\* the same provider results give when they complete in registration order.
C10_Witness ==
    /\ Reported
    /\ results # InProviderOrder
    /\ \A i \in Adapters : fut[i].kind = "value"
    /\ output.confidence # weighted_confidence(InProviderOrder[1], InProviderOrder[2]).v
    /\ output.severe # detect_severe(InProviderOrder[1].condition, InProviderOrder[1].rain,
                                     InProviderOrder[1].wind).severe
=============================================================================
